---- MODULE Spec2Model ----
(***************************************************************************)
(* NDVI-Viewer (src/app.py): a Streamlit page that resolves an area of     *)
(* interest from uploaded GeoJSON files, builds a Sentinel-2 median        *)
(* composite, derives NDVI and a 7-class NDVI, and registers the rasters   *)
(* as tile layers on a folium map.                                         *)
(*                                                                         *)
(* Two specifications:                                                     *)
(*   Spec        the page render (main) as a state machine, over renders   *)
(*               and restarts of the serving process;                      *)
(*   SpecRaster  the per-pixel meaning of the band-math expression graph   *)
(*               that main builds (clip/scale, median, NDVI, mask, the     *)
(*               chain of seven where() overwrites).                       *)
(* Numbers that are reals in the program are exact rationals [n, d] here.  *)
(***************************************************************************)
EXTENDS Integers, Sequences, FiniteSets

\* ------------------------------------------------------------------ bounds
MaxFiles == 2
MaxRenders == 2
MaxRestarts == 1
MaxScenes == 1

\* --------------------------------------------------------- uploaded files
\* Coordinates are in hundredths of a degree.
RingA == << <<0, 0>>, <<400, 0>>, <<400, 400>>, <<0, 0>> >>
RingB == << <<1000, 1000>>, <<1400, 1000>>, <<1200, 1400>>, <<1000, 1000>> >>
RingHole == << <<1100, 1100>>, <<1200, 1100>>, <<1200, 1200>>, <<1100, 1100>> >>
PolyA == <<RingA>>
PolyB == <<RingB, RingHole>>

Feature(coords) ==
    [hasGeometry |-> TRUE, hasCoordinates |-> TRUE, coordinates |-> coords]
FeatureNoGeometry ==
    [hasGeometry |-> FALSE, hasCoordinates |-> FALSE, coordinates |-> <<>>]

\* The byte content of an uploaded file: text that parses as JSON or not,
\* and, when it parses, the document it denotes.
FileA == [wellformed |-> TRUE, hasFeatures |-> TRUE, features |-> <<Feature(PolyA)>>]
FileBA ==
    [wellformed |-> TRUE, hasFeatures |-> TRUE,
     features |-> <<Feature(PolyB), Feature(PolyA)>>]
FileBroken == [wellformed |-> FALSE, hasFeatures |-> FALSE, features |-> <<>>]
FileNoGeometry ==
    [wellformed |-> TRUE, hasFeatures |-> TRUE, features |-> <<FeatureNoGeometry>>]

ValidFiles == {FileA, FileBA}
BadFiles == {FileBroken, FileNoGeometry}
FileContents == ValidFiles \cup BadFiles

SeqsUpTo(S, n) == UNION {[1..k -> S] : k \in 0..n}
Uploads == SeqsUpTo(FileContents, MaxFiles)

\* ------------------------------------------------------------------ dates
DefaultDates == << [y |-> 2023, m |-> 2, d |-> 10], [y |-> 2023, m |-> 2, d |-> 20] >>
OtherDates == << [y |-> 2024, m |-> 11, d |-> 5], [y |-> 2024, m |-> 3, d |-> 1] >>
DateChoices == {DefaultDates, OtherDates}

Digit(n) == <<"0", "1", "2", "3", "4", "5", "6", "7", "8", "9">>[n + 1]
Pad2(n) == <<Digit((n \div 10) % 10), Digit(n % 10)>>
Pad4(n) == <<Digit((n \div 1000) % 10), Digit((n \div 100) % 10)>> \o Pad2(n)
strftime(date) == Pad4(date.y) \o <<"-">> \o Pad2(date.m) \o <<"-">> \o Pad2(date.d)

\* -------------------------------------------------------------- geometries
NoGeometry == [type |-> "None", coordinates |-> <<>>, geometries |-> <<>>]
DefaultPoint == <<2798, 3613>>
ee_Geometry_Point(coords) ==
    [type |-> "Point", coordinates |-> coords, geometries |-> <<>>]
ee_Geometry_Polygon(coords) ==
    [type |-> "Polygon", coordinates |-> coords, geometries |-> <<>>]
ee_Geometry_MultiPolygon(list) ==
    [type |-> "MultiPolygon", coordinates |-> <<>>, geometries |-> list]

\* ------------------------------------------------------ upload_files_proc
json_loads(bytes_data) ==
    IF bytes_data.wellformed
    THEN [ok |-> TRUE, error |-> "", features |-> bytes_data.features,
          hasFeatures |-> bytes_data.hasFeatures]
    ELSE [ok |-> FALSE, error |-> "JSONDecodeError", features |-> <<>>,
          hasFeatures |-> FALSE]

FeatureIndex_last(features) == Len(features)
FeatureIndex(features) == 1

\* geojson_data['features'][0]['geometry']['coordinates']
ExtractCoordinates(doc) ==
    IF ~doc.hasFeatures THEN [ok |-> FALSE, error |-> "KeyError", coordinates |-> <<>>]
    ELSE IF doc.features = <<>>
    THEN [ok |-> FALSE, error |-> "IndexError", coordinates |-> <<>>]
    ELSE LET f == doc.features[FeatureIndex(doc.features)] IN
         IF ~f.hasGeometry \/ ~f.hasCoordinates
         THEN [ok |-> FALSE, error |-> "KeyError", coordinates |-> <<>>]
         ELSE [ok |-> TRUE, error |-> "", coordinates |-> f.coordinates]

AppendGeometry_front(list, geometry) == <<geometry>> \o list
AppendGeometry(list, geometry) == Append(list, geometry)

\* One iteration of the loop body, for one uploaded file.
ProcessFile(upload_file, initialized) ==
    LET doc == json_loads(upload_file) IN
    IF ~doc.ok THEN [ok |-> FALSE, error |-> doc.error, uninit |-> FALSE,
                     geometry |-> NoGeometry]
    ELSE LET c == ExtractCoordinates(doc) IN
         IF ~c.ok THEN [ok |-> FALSE, error |-> c.error, uninit |-> FALSE,
                        geometry |-> NoGeometry]
         ELSE IF ~initialized
         THEN [ok |-> FALSE, error |-> "EEException", uninit |-> TRUE,
               geometry |-> NoGeometry]
         ELSE [ok |-> TRUE, error |-> "", uninit |-> FALSE,
               geometry |-> ee_Geometry_Polygon(c.coordinates)]

RECURSIVE UploadLoop(_, _, _, _)
UploadLoop(files, i, list, initialized) ==
    IF i > Len(files) THEN [ok |-> TRUE, error |-> "", uninit |-> FALSE, list |-> list]
    ELSE LET r == ProcessFile(files[i], initialized) IN
         IF ~r.ok THEN [ok |-> FALSE, error |-> r.error, uninit |-> r.uninit,
                        list |-> list]
         ELSE UploadLoop(files, i + 1, AppendGeometry(list, r.geometry), initialized)

CombineGeometries_single(list) ==
    IF Len(list) > 1 THEN ee_Geometry_MultiPolygon(list)
    ELSE ee_Geometry_Point(DefaultPoint)
CombineGeometries(list) ==
    IF list # <<>> THEN ee_Geometry_MultiPolygon(list)
    ELSE ee_Geometry_Point(DefaultPoint)

upload_files_proc_skip(files, initialized) ==
    LET good == SelectSeq(files, LAMBDA f : ProcessFile(f, initialized).ok)
        r == UploadLoop(good, 1, <<>>, initialized) IN
    IF ~initialized
    THEN [ok |-> FALSE, error |-> "EEException", uninit |-> TRUE, geometry |-> NoGeometry]
    ELSE [ok |-> TRUE, error |-> "", uninit |-> FALSE,
          geometry |-> CombineGeometries(r.list)]
upload_files_proc(files, initialized) ==
    LET r == UploadLoop(files, 1, <<>>, initialized) IN
    IF ~r.ok
    THEN [ok |-> FALSE, error |-> r.error, uninit |-> r.uninit, geometry |-> NoGeometry]
    ELSE IF ~initialized
    THEN [ok |-> FALSE, error |-> "EEException", uninit |-> TRUE, geometry |-> NoGeometry]
    ELSE [ok |-> TRUE, error |-> "", uninit |-> FALSE,
          geometry |-> CombineGeometries(r.list)]

\* ---------------------------------------------------------------- the map
\* folium.Map(location=[36.40, 2.80], tiles='Open Street Map', zoom_start=10)
\* location is in hundredths of a degree; children are the elements that
\* main attaches with add_to, in attachment order.
FoliumMap ==
    [created |-> TRUE, location |-> <<3640, 280>>, tiles |-> "Open Street Map",
     zoom_start |-> 10, control_scale |-> TRUE, children |-> <<>>]
NoMap ==
    [created |-> FALSE, location |-> <<0, 0>>, tiles |-> "", zoom_start |-> 0,
     control_scale |-> FALSE, children |-> <<>>]

add_to_front(map, child) == [map EXCEPT !.children = <<child>> \o @]
add_to(map, child) == [map EXCEPT !.children = Append(@, child)]

b1 == [kind |-> "TileLayer", name |-> "Dark Matter Basemap", overlay |-> FALSE,
       show |-> TRUE]
b2 == [kind |-> "WmsTileLayer", name |-> "Topography Basemap", overlay |-> FALSE,
       show |-> FALSE]
EeTileLayer(name) == [kind |-> "EeTileLayer", name |-> name, overlay |-> TRUE,
                      show |-> TRUE]
LayerControl == [kind |-> "LayerControl", name |-> "", overlay |-> FALSE,
                 show |-> TRUE]

\* ---------------------------------------------- visualization parameters
tci_params ==
    [bands |-> <<"B4", "B3", "B2">>, min |-> 0, max |-> 1, gamma |-> 1]
ndvi_params ==
    [min |-> 0, max |-> 1,
     palette |-> <<"#ffffe5", "#f7fcb9", "#78c679", "#41ab5d", "#238443", "#005a32">>]
ndvi_classified_params ==
    [min |-> 1, max |-> 7,
     palette |-> <<"#a50026", "#ed5e3d", "#f9f7ae", "#fec978", "#9ed569", "#229b51",
                   "#006837">>]

\* The three add_ee_layer calls of main, in program order: the lazy image
\* expression, its visualization parameters, the layer's display name.
EeLayers ==
    << [image |-> "sat_imagery", vis |-> tci_params, name |-> "True Color Image"],
       [image |-> "ndvi", vis |-> ndvi_params, name |-> "NDVI"],
       [image |-> "ndvi_classified", vis |-> ndvi_classified_params,
        name |-> "NDVI - Classified"] >>

Token == "EARTHENGINE_TOKEN"
RemoteCalls == {"ee_initialize"} \cup {EeLayers[i].name : i \in 1..Len(EeLayers)}

NoCollection ==
    [id |-> "", cloudy_lt |-> 0, start |-> <<>>, end |-> <<>>, bounds |-> NoGeometry]

\* ------------------------------------------------------------------ state
VARIABLES
    memCache,       \* st.cache_data entries held in this process's memory
    diskCache,      \* st.cache_data entries persisted on disk (persist=True)
    eeInitialized,  \* geemap.ee_initialize has succeeded in this process
    initExec,       \* executions of geemap.ee_initialize in this process
    initRaised,     \* geemap.ee_initialize has raised in this process
    renders,        \* calls of main started so far, over all processes
    restarts,       \* restarts of the serving process so far
    pc,             \* position of the current render inside main
    upload_files,   \* value of st.file_uploader for the current render
    dates,          \* values of the two date pickers for the current render
    start_date, end_date,
    geometry_aoi,
    m,              \* the folium map of the current render
    collection,     \* the filtered image collection reference
    requests,       \* getMapId requests issued by the current render
    attempts,       \* remote call -> times attempted in the current render
    displayed,      \* folium_static(m) has run in the current render
    message,        \* the exception the page shows for the current render
    failed,         \* the remote call whose failure ended the current render
    eeCallUninit,   \* an Earth Engine call was made before initialization
    prev,           \* inputs and outputs of the previous completed render
    \* ---- per-pixel meaning of the band-math graph (SpecRaster)
    inAOI,          \* the pixel lies inside geometry_aoi
    scenes,         \* band values of the scenes that have data at the pixel
    ndZeroMasked,   \* normalizedDifference masks a 0/0 pixel (else yields 0)
    stage,          \* position in the band-math pipeline
    clipped_collection, \* the scenes after clip(geometry_aoi).divide(10000)
    sat_imagery,    \* the composite at the pixel
    tci_image,
    ndvi_raw,       \* normalizedDifference before updateMask
    ndvi,           \* after updateMask(ndvi.gte(0))
    ndvi_classified,
    applied         \* number of where() rules applied so far

appVars ==
    <<memCache, diskCache, eeInitialized, initExec, initRaised, renders, restarts,
      pc, upload_files, dates, start_date, end_date, geometry_aoi, m, collection,
      requests, attempts, displayed, message, failed, eeCallUninit, prev>>
renderVars ==
    <<upload_files, dates, start_date, end_date, geometry_aoi, m, collection,
      requests, attempts, displayed, message, failed, eeCallUninit>>
rasterVars ==
    <<inAOI, scenes, ndZeroMasked, stage, clipped_collection, sat_imagery,
      tci_image, ndvi_raw, ndvi, ndvi_classified, applied>>
vars == <<appVars, rasterVars>>

NoPrev == [valid |-> FALSE, files |-> <<>>, dates |-> DefaultDates, names |-> <<>>,
           params |-> <<>>, hasControl |-> FALSE]

LayerNames(map) ==
    LET layers == SelectSeq(map.children, LAMBDA c : c.kind # "LayerControl") IN
    [i \in 1..Len(layers) |-> layers[i].name]
RequestParams(reqs) == [i \in 1..Len(reqs) |-> reqs[i].vis]
ControlLast(map) ==
    /\ map.children # <<>>
    /\ map.children[Len(map.children)].kind = "LayerControl"
    /\ \A i \in 1..(Len(map.children) - 1) : map.children[i].kind # "LayerControl"

InitRender ==
    /\ upload_files = <<>>
    /\ dates = DefaultDates
    /\ start_date = <<>>
    /\ end_date = <<>>
    /\ geometry_aoi = NoGeometry
    /\ m = NoMap
    /\ collection = NoCollection
    /\ requests = <<>>
    /\ attempts = [c \in RemoteCalls |-> 0]
    /\ displayed = FALSE
    /\ message = ""
    /\ failed = ""
    /\ eeCallUninit = FALSE

InitApp ==
    /\ memCache = {}
    /\ diskCache = {}
    /\ eeInitialized = FALSE
    /\ initExec = 0
    /\ initRaised = FALSE
    /\ renders = 0
    /\ restarts = 0
    /\ pc = "idle"
    /\ prev = NoPrev
    /\ InitRender

\* Nothing that main builds outlives the run of main that built it.
ResetRender(files, picked) ==
    /\ upload_files' = files
    /\ dates' = picked
    /\ start_date' = <<>>
    /\ end_date' = <<>>
    /\ geometry_aoi' = NoGeometry
    /\ m' = NoMap
    /\ collection' = NoCollection
    /\ requests' = <<>>
    /\ attempts' = [c \in RemoteCalls |-> 0]
    /\ displayed' = FALSE
    /\ message' = ""
    /\ failed' = ""
    /\ eeCallUninit' = FALSE

AtRest == pc \in {"idle", "done", "error"}

\* A page load or widget interaction starts a run of main with the widgets'
\* current values; everything main builds is rebuilt from scratch.
StartRender(files, picked) ==
    /\ AtRest
    /\ renders < MaxRenders
    /\ renders' = renders + 1
    /\ pc' = "auth"
    /\ ResetRender(files, picked)
    /\ prev' = IF pc = "done"
               THEN [valid |-> TRUE, files |-> upload_files, dates |-> dates,
                     names |-> LayerNames(m), params |-> RequestParams(requests),
                     hasControl |-> ControlLast(m)]
               ELSE prev
    /\ UNCHANGED <<memCache, diskCache, eeInitialized, initExec, initRaised, restarts>>
    /\ UNCHANGED rasterVars

\* ee_authenticate: the cached result is found in memory or on disk and the
\* function body is not executed.
AuthCached ==
    /\ pc = "auth"
    /\ Token \in memCache \cup diskCache
    /\ memCache' = memCache \cup {Token}
    /\ pc' = "upload"
    /\ UNCHANGED <<diskCache, eeInitialized, initExec, initRaised, renders, restarts,
                   prev>>
    /\ UNCHANGED renderVars
    /\ UNCHANGED rasterVars

\* ee_authenticate: cache miss, geemap.ee_initialize runs and succeeds; its
\* result is stored in memory and, with persist=True, on disk.
AuthInitOk ==
    /\ pc = "auth"
    /\ Token \notin memCache \cup diskCache
    /\ initExec' = initExec + 1
    /\ attempts' = [attempts EXCEPT !["ee_initialize"] = @ + 1]
    /\ eeInitialized' = TRUE
    /\ memCache' = memCache \cup {Token}
    /\ diskCache' = diskCache \cup {Token}
    /\ pc' = "upload"
    /\ UNCHANGED <<initRaised, renders, restarts, prev>>
    /\ UNCHANGED <<upload_files, dates, start_date, end_date, geometry_aoi, m,
                   collection, requests, displayed, message, failed, eeCallUninit>>
    /\ UNCHANGED rasterVars

\* ee_authenticate: cache miss, geemap.ee_initialize raises; nothing is
\* cached and the exception ends the render.
AuthInitFail ==
    /\ pc = "auth"
    /\ Token \notin memCache \cup diskCache
    /\ initExec' = initExec + 1
    /\ attempts' = [attempts EXCEPT !["ee_initialize"] = @ + 1]
    /\ pc' = "error"
    /\ failed' = "ee_initialize"
    /\ message' = "EEException"
    /\ initRaised' = TRUE
    /\ UNCHANGED <<memCache, diskCache, eeInitialized, renders, restarts, prev>>
    /\ UNCHANGED <<upload_files, dates, start_date, end_date, geometry_aoi, m,
                   collection, requests, displayed, eeCallUninit>>
    /\ UNCHANGED rasterVars

\* geometry_aoi = upload_files_proc(upload_files) returns.
UploadReturn ==
    /\ pc = "upload"
    /\ LET r == upload_files_proc(upload_files, eeInitialized) IN
       /\ r.ok
       /\ geometry_aoi' = r.geometry
    /\ pc' = "map"
    /\ UNCHANGED <<memCache, diskCache, eeInitialized, initExec, initRaised, renders,
                   restarts, prev>>
    /\ UNCHANGED <<upload_files, dates, start_date, end_date, m, collection,
                   requests, attempts, displayed, message, failed, eeCallUninit>>
    /\ UNCHANGED rasterVars

\* upload_files_proc raises; the exception is not caught in main.
UploadRaise ==
    /\ pc = "upload"
    /\ LET r == upload_files_proc(upload_files, eeInitialized) IN
       /\ ~r.ok
       /\ message' = r.error
       /\ eeCallUninit' = r.uninit
    /\ pc' = "error"
    /\ UNCHANGED <<memCache, diskCache, eeInitialized, initExec, initRaised, renders,
                   restarts, prev>>
    /\ UNCHANGED <<upload_files, dates, start_date, end_date, geometry_aoi, m,
                   collection, requests, attempts, displayed, failed>>
    /\ UNCHANGED rasterVars

\* Date pickers, strftime, the map and its two basemaps.
MapSetup ==
    /\ pc = "map"
    /\ start_date' = strftime(dates[1])
    /\ end_date' = strftime(dates[2])
    /\ m' = add_to(add_to(FoliumMap, b1), b2)
    /\ pc' = "processing"
    /\ UNCHANGED <<memCache, diskCache, eeInitialized, initExec, initRaised, renders,
                   restarts, prev>>
    /\ UNCHANGED <<upload_files, dates, geometry_aoi, collection, requests, attempts,
                   displayed, message, failed, eeCallUninit>>
    /\ UNCHANGED rasterVars

\* The collection query and the band-math expression graph: lazy, no remote
\* call is made here.
Processing ==
    /\ pc = "processing"
    /\ collection' = [id |-> "COPERNICUS/S2_SR", cloudy_lt |-> 100,
                      start |-> start_date, end |-> end_date,
                      bounds |-> geometry_aoi]
    /\ pc' = "layers"
    /\ UNCHANGED <<memCache, diskCache, eeInitialized, initExec, initRaised, renders,
                   restarts, prev>>
    /\ UNCHANGED <<upload_files, dates, start_date, end_date, geometry_aoi, m,
                   requests, attempts, displayed, message, failed, eeCallUninit>>
    /\ UNCHANGED rasterVars

\* m.add_ee_layer(image, vis_params, name): getMapId answers and the tile
\* layer is attached to the map.
AddEeLayerOk(i) ==
    /\ pc = "layers"
    /\ i = Len(requests) + 1
    /\ requests' = Append(requests, [image |-> EeLayers[i].image,
                                      vis |-> EeLayers[i].vis])
    /\ attempts' = [attempts EXCEPT ![EeLayers[i].name] = @ + 1]
    /\ m' = add_to(m, EeTileLayer(EeLayers[i].name))
    /\ pc' = IF i = Len(EeLayers) THEN "display" ELSE "layers"
    /\ UNCHANGED <<memCache, diskCache, eeInitialized, initExec, initRaised, renders,
                   restarts, prev>>
    /\ UNCHANGED <<upload_files, dates, start_date, end_date, geometry_aoi,
                   collection, displayed, message, failed, eeCallUninit>>
    /\ UNCHANGED rasterVars

\* What main does when getMapId raises inside add_ee_layer number i.
OnGetMapIdError_skip(i) ==
    /\ pc' = IF i = Len(EeLayers) THEN "display" ELSE "layers"
    /\ UNCHANGED <<failed, message>>
OnGetMapIdError(i) ==
    /\ pc' = "error"
    /\ failed' = EeLayers[i].name
    /\ message' = "EEException"

\* m.add_ee_layer(image, vis_params, name): getMapId raises; add_ee_layer
\* has no handler, and neither has main.
AddEeLayerFail(i) ==
    /\ pc = "layers"
    /\ i = Len(requests) + 1
    /\ requests' = Append(requests, [image |-> EeLayers[i].image,
                                      vis |-> EeLayers[i].vis])
    /\ attempts' = [attempts EXCEPT ![EeLayers[i].name] = @ + 1]
    /\ OnGetMapIdError(i)
    /\ UNCHANGED <<memCache, diskCache, eeInitialized, initExec, initRaised, renders,
                   restarts, prev>>
    /\ UNCHANGED <<upload_files, dates, start_date, end_date, geometry_aoi, m,
                   collection, displayed, eeCallUninit>>
    /\ UNCHANGED rasterVars

\* folium.LayerControl(collapsed=False).add_to(m); folium_static(m)
Display ==
    /\ pc = "display"
    /\ m' = add_to(m, LayerControl)
    /\ displayed' = TRUE
    /\ pc' = "done"
    /\ UNCHANGED <<memCache, diskCache, eeInitialized, initExec, initRaised, renders,
                   restarts, prev>>
    /\ UNCHANGED <<upload_files, dates, start_date, end_date, geometry_aoi,
                   collection, requests, attempts, message, failed, eeCallUninit>>
    /\ UNCHANGED rasterVars

\* The serving process is restarted: everything in memory is gone, the
\* entries st.cache_data persisted on disk remain.
Restart ==
    /\ AtRest
    /\ restarts < MaxRestarts
    /\ restarts' = restarts + 1
    /\ memCache' = {}
    /\ eeInitialized' = FALSE
    /\ initExec' = 0
    /\ initRaised' = FALSE
    /\ pc' = "idle"
    /\ prev' = NoPrev
    /\ ResetRender(<<>>, DefaultDates)
    /\ UNCHANGED <<diskCache, renders>>
    /\ UNCHANGED rasterVars

Next ==
    \/ \E files \in Uploads, picked \in DateChoices : StartRender(files, picked)
    \/ AuthCached
    \/ AuthInitOk
    \/ AuthInitFail
    \/ UploadReturn
    \/ UploadRaise
    \/ MapSetup
    \/ Processing
    \/ \E i \in 1..Len(EeLayers) : AddEeLayerOk(i)
    \/ \E i \in 1..Len(EeLayers) : AddEeLayerFail(i)
    \/ Display
    \/ Restart

\* ------------------------------------------------------ band-math, per pixel
Scale == 10000

\* Raw Sentinel-2 digital numbers of bands B8 and B4 at the pixel.
B8Levels == {0, 5, 7, 9, 11, 13, 23, 27, 29, 33}
B4Levels == {0, 1, 3, 5, 7, 9, 11, 13, 17}
ScenePixels == [B8 : B8Levels, B4 : B4Levels]

RECURSIVE GCD(_, _)
GCD(a, b) == IF b = 0 THEN a ELSE GCD(b, a % b)
Abs(x) == IF x < 0 THEN -x ELSE x
\* The rational n/d in lowest terms, d > 0.
Rat(n, d) == LET g == GCD(Abs(n), d) IN [n |-> n \div g, d |-> d \div g]
RatLt(a, b) == a.n * b.d < b.n * a.d
RatLe(a, b) == a.n * b.d <= b.n * a.d
RatAdd(a, b) == Rat(a.n * b.d + b.n * a.d, a.d * b.d)
RatSub(a, b) == Rat(a.n * b.d - b.n * a.d, a.d * b.d)
RatDiv(a, b) == Rat(a.n * b.d, a.d * b.n)
RatHalf(a) == Rat(a.n, 2 * a.d)
Zero == Rat(0, 1)

\* A pixel of a one-band image, and of the two-band composite.
Masked == [masked |-> TRUE, n |-> 0, d |-> 1]
Value(r) == [masked |-> FALSE, n |-> r.n, d |-> r.d]
MaskedBands == [masked |-> TRUE, B8 |-> Zero, B4 |-> Zero]

\* image.clip(geometry_aoi).divide(10000) at the pixel
ClipDivide(scene, inside) ==
    IF ~inside THEN MaskedBands
    ELSE [masked |-> FALSE, B8 |-> Rat(scene.B8, Scale), B4 |-> Rat(scene.B4, Scale)]

RECURSIVE Insert(_, _)
Insert(sorted, x) ==
    IF sorted = <<>> THEN <<x>>
    ELSE IF RatLe(x, Head(sorted)) THEN <<x>> \o sorted
    ELSE <<Head(sorted)>> \o Insert(Tail(sorted), x)
RECURSIVE Sorted(_)
Sorted(s) == IF s = <<>> THEN <<>> ELSE Insert(Sorted(Tail(s)), Head(s))

MedianOf(values) ==
    LET s == Sorted(values)
        k == Len(s) IN
    IF k % 2 = 1 THEN s[(k + 1) \div 2]
    ELSE RatHalf(RatAdd(s[k \div 2], s[(k \div 2) + 1]))

\* clipped_collection.median() at the pixel: per band, over the scenes that
\* are unmasked there; masked when there is none.
Median(coll) ==
    LET live == SelectSeq(coll, LAMBDA p : ~p.masked) IN
    IF live = <<>> THEN MaskedBands
    ELSE [masked |-> FALSE,
          B8 |-> MedianOf([i \in 1..Len(live) |-> live[i].B8]),
          B4 |-> MedianOf([i \in 1..Len(live) |-> live[i].B4])]

\* image.normalizedDifference(['B8', 'B4']) at the pixel
normalizedDifference(img, zeroMasked) ==
    IF img.masked THEN Masked
    ELSE IF img.B8.n < 0 \/ img.B4.n < 0 THEN Masked
    ELSE IF RatAdd(img.B8, img.B4).n = 0
    THEN (IF zeroMasked THEN Masked ELSE Value(Zero))
    ELSE Value(RatDiv(RatSub(img.B8, img.B4), RatAdd(img.B8, img.B4)))

Bool(b) == IF b THEN [n |-> 1, d |-> 1] ELSE Zero
gte_strict(img, c) == IF img.masked THEN Masked ELSE Value(Bool(RatLt(c, img)))
gte(img, c) == IF img.masked THEN Masked ELSE Value(Bool(RatLe(c, img)))
lt(img, c) == IF img.masked THEN Masked ELSE Value(Bool(RatLt(img, c)))
And(a, b) ==
    IF a.masked \/ b.masked THEN Masked ELSE Value(Bool(a.n # 0 /\ b.n # 0))

\* image.updateMask(mask): the pixel stays only where it was unmasked and the
\* mask is unmasked and nonzero.
updateMask(img, mask) ==
    IF img.masked \/ mask.masked \/ mask.n = 0 THEN Masked ELSE img

\* input.where(test, value): value where test is nonzero, input elsewhere;
\* a masked input pixel stays masked.
where(input, test, value) ==
    IF input.masked THEN input
    ELSE IF test.masked THEN input
    ELSE IF test.n # 0 THEN Value(Rat(value, 1))
    ELSE input

T(hundredths) == Rat(hundredths, 100)
\* The seven where() calls, in program order.
Rules ==
    << [lo |-> T(0), hi |-> T(15), bounded |-> TRUE, classId |-> 1],
       [lo |-> T(15), hi |-> T(25), bounded |-> TRUE, classId |-> 2],
       [lo |-> T(25), hi |-> T(35), bounded |-> TRUE, classId |-> 3],
       [lo |-> T(35), hi |-> T(45), bounded |-> TRUE, classId |-> 4],
       [lo |-> T(45), hi |-> T(65), bounded |-> TRUE, classId |-> 5],
       [lo |-> T(65), hi |-> T(75), bounded |-> TRUE, classId |-> 6],
       [lo |-> T(75), hi |-> T(75), bounded |-> FALSE, classId |-> 7] >>

\* The image the rules' conditions are written against, given the masked
\* NDVI and the chain's current output.
TestImage_chained(original, current) == current
TestImage(original, current) == original

RuleTest(k, img) ==
    IF Rules[k].bounded THEN And(gte(img, Rules[k].lo), lt(img, Rules[k].hi))
    ELSE gte(img, Rules[k].lo)

\* The image the chain starts from, given NDVI before and after updateMask.
ChainInput_unmasked(raw, masked) == raw
ChainInput(raw, masked) == masked

InitRaster ==
    /\ inAOI \in BOOLEAN
    /\ scenes \in SeqsUpTo(ScenePixels, MaxScenes)
    /\ ndZeroMasked \in BOOLEAN
    /\ stage = "collection"
    /\ clipped_collection = <<>>
    /\ sat_imagery = MaskedBands
    /\ tci_image = MaskedBands
    /\ ndvi_raw = Masked
    /\ ndvi = Masked
    /\ ndvi_classified = Masked
    /\ applied = 0

InitRasterIdle ==
    /\ inAOI = TRUE
    /\ scenes = <<>>
    /\ ndZeroMasked = FALSE
    /\ stage = "collection"
    /\ clipped_collection = <<>>
    /\ sat_imagery = MaskedBands
    /\ tci_image = MaskedBands
    /\ ndvi_raw = Masked
    /\ ndvi = Masked
    /\ ndvi_classified = Masked
    /\ applied = 0

\* clipped_collection = collection.map(lambda image: image.clip(aoi).divide(10000))
ClipCollection ==
    /\ stage = "collection"
    /\ clipped_collection' = [i \in 1..Len(scenes) |-> ClipDivide(scenes[i], inAOI)]
    /\ stage' = "clipped"
    /\ UNCHANGED <<inAOI, scenes, ndZeroMasked, sat_imagery, tci_image, ndvi_raw,
                   ndvi, ndvi_classified, applied>>
    /\ UNCHANGED appVars

\* sat_imagery = clipped_collection.median(); tci_image = sat_imagery
Composite ==
    /\ stage = "clipped"
    /\ sat_imagery' = Median(clipped_collection)
    /\ tci_image' = sat_imagery'
    /\ stage' = "composite"
    /\ UNCHANGED <<inAOI, scenes, ndZeroMasked, clipped_collection, ndvi_raw, ndvi,
                   ndvi_classified, applied>>
    /\ UNCHANGED appVars

\* ndvi = getNDVI(sat_imagery)
GetNDVI ==
    /\ stage = "composite"
    /\ ndvi_raw' = normalizedDifference(sat_imagery, ndZeroMasked)
    /\ stage' = "ndvi"
    /\ UNCHANGED <<inAOI, scenes, ndZeroMasked, clipped_collection, sat_imagery,
                   tci_image, ndvi, ndvi_classified, applied>>
    /\ UNCHANGED appVars

\* ndvi = ndvi.updateMask(ndvi.gte(0)), and ee.Image(ndvi) opens the chain
MaskNDVI ==
    /\ stage = "ndvi"
    /\ ndvi' = updateMask(ndvi_raw, gte(ndvi_raw, Zero))
    /\ ndvi_classified' = ChainInput(ndvi_raw, ndvi')
    /\ applied' = 0
    /\ stage' = "classify"
    /\ UNCHANGED <<inAOI, scenes, ndZeroMasked, clipped_collection, sat_imagery,
                   tci_image, ndvi_raw>>
    /\ UNCHANGED appVars

\* The k-th .where(condition, k) of the chain.
WhereStep(k) ==
    /\ stage = "classify"
    /\ k = applied + 1
    /\ ndvi_classified' =
           where(ndvi_classified, RuleTest(k, TestImage(ndvi, ndvi_classified)),
                 Rules[k].classId)
    /\ applied' = k
    /\ stage' = IF k = Len(Rules) THEN "done" ELSE "classify"
    /\ UNCHANGED <<inAOI, scenes, ndZeroMasked, clipped_collection, sat_imagery,
                   tci_image, ndvi_raw, ndvi>>
    /\ UNCHANGED appVars

NextRaster ==
    \/ ClipCollection
    \/ Composite
    \/ GetNDVI
    \/ MaskNDVI
    \/ \E k \in 1..Len(Rules) : WhereStep(k)

Init == InitApp /\ InitRasterIdle
Spec == Init /\ [][Next]_vars
InitPixel == InitApp /\ InitRaster
SpecRaster == InitPixel /\ [][NextRaster]_vars

\* ------------------------------------------------------------ the claims
\* The upload step of the current render has run and returned a geometry.
Returned == geometry_aoi.type # "None"
\* The current render is past the call of upload_files_proc.
PastUpload == pc \notin {"idle", "auth", "upload"}
\* A file that is not JSON or lacks features[0].geometry.coordinates.
IsBad(f) ==
    \/ ~f.wellformed
    \/ ~f.hasFeatures
    \/ f.features = <<>>
    \/ ~f.features[1].hasGeometry
    \/ ~f.features[1].hasCoordinates
AllValid == \A i \in 1..Len(upload_files) : ~IsBad(upload_files[i])
AnyBad == \E i \in 1..Len(upload_files) : IsBad(upload_files[i])

\* C1: with n >= 1 uploaded files, all valid, upload_files_proc returns a
\* multi-polygon of exactly n polygons, the i-th built from the coordinates
\* at features[0] of the i-th file; in an initialized process the call does
\* return.
C1_OnePolygonPerFile ==
    (Len(upload_files) >= 1 /\ AllValid) =>
        /\ (PastUpload /\ eeInitialized) => Returned
        /\ Returned =>
            /\ geometry_aoi.type = "MultiPolygon"
            /\ Len(geometry_aoi.geometries) = Len(upload_files)
            /\ \A i \in 1..Len(upload_files) :
                  /\ geometry_aoi.geometries[i].type = "Polygon"
                  /\ geometry_aoi.geometries[i].coordinates =
                         upload_files[i].features[1].coordinates

\* Two different valid files were uploaded and the resolver has returned.
C1_Witness ==
    /\ Returned
    /\ Len(upload_files) = 2
    /\ upload_files[1] # upload_files[2]

\* C2: with zero uploaded files upload_files_proc returns the point
\* [27.98, 36.13], and with one or more files its result is never a point.
C2_DefaultPointOnlyWhenEmpty ==
    /\ (upload_files = <<>> /\ PastUpload /\ eeInitialized) => Returned
    /\ (upload_files = <<>> /\ Returned) =>
           /\ geometry_aoi.type = "Point"
           /\ geometry_aoi.coordinates = <<2798, 3613>>
    /\ (Len(upload_files) >= 1 /\ Returned) => geometry_aoi.type # "Point"

\* The resolver has returned the default point for an empty upload, after an
\* earlier render of the same process returned for a single file.
C2_Witness ==
    /\ Returned
    /\ upload_files = <<>>
    /\ geometry_aoi.type = "Point"
    /\ prev.valid
    /\ Len(prev.files) = 1

SamePoints(ringX, ringY) ==
    /\ Len(ringX) = Len(ringY)
    /\ \A j \in 1..Len(ringX) : ringX[j][1] = ringY[j][1] /\ ringX[j][2] = ringY[j][2]

\* C3: for a single valid file the geometry produced holds one polygon whose
\* rings are the input's features[0].geometry.coordinates, point for point.
C3_RingMatchesInput ==
    (Len(upload_files) = 1 /\ AllValid /\ Returned) =>
        /\ Len(geometry_aoi.geometries) = 1
        /\ LET out == geometry_aoi.geometries[1].coordinates
               inp == upload_files[1].features[1].coordinates IN
           /\ Len(out) = Len(inp)
           /\ \A r \in 1..Len(inp) : SamePoints(out[r], inp[r])

\* The resolver has returned for one file that holds two features.
C3_Witness ==
    /\ Returned
    /\ Len(upload_files) = 1
    /\ Len(upload_files[1].features) = 2

\* C5: when any uploaded file is malformed or lacks the coordinates path, the
\* render ends in an error the page shows; no geometry is returned, and no
\* map, layer, query or display is made in that render.
C5_BadUploadAborts ==
    AnyBad =>
        /\ geometry_aoi = NoGeometry
        /\ m = NoMap
        /\ collection = NoCollection
        /\ requests = <<>>
        /\ ~displayed
        /\ PastUpload => (pc = "error" /\ message # "")

\* A valid file followed by a malformed one: the render ended in the parse
\* error.
C5_Witness ==
    /\ pc = "error"
    /\ message = "JSONDecodeError"
    /\ Len(upload_files) = 2
    /\ ~IsBad(upload_files[1])

\* C6: in a process where initialization has not raised, geemap.ee_initialize
\* has been executed exactly once by the time a render is past the
\* authentication step, and no Earth Engine call is made before it.
C6_InitOncePerProcess ==
    /\ (pc \notin {"idle", "auth"} /\ ~initRaised) => initExec = 1
    /\ ~eeCallUninit

FiveLayers ==
    <<"Dark Matter Basemap", "Topography Basemap", "True Color Image", "NDVI",
      "NDVI - Classified">>

\* C7: a completed render has registered the five layers in the fixed order
\* with the layer control attached last and has requested the three rasters
\* with the fixed visualization parameters; a render with the same files and
\* dates as the previous completed one yields the same names and parameters.
C7_SameLayersSameOrder ==
    pc = "done" =>
        /\ LayerNames(m) = FiveLayers
        /\ ControlLast(m)
        /\ Len(requests) = 3
        /\ requests[1].vis =
               [bands |-> <<"B4", "B3", "B2">>, min |-> 0, max |-> 1, gamma |-> 1]
        /\ requests[2].vis.min = 0 /\ requests[2].vis.max = 1
        /\ Len(requests[2].vis.palette) = 6
        /\ requests[3].vis.min = 1 /\ requests[3].vis.max = 7
        /\ Len(requests[3].vis.palette) = 7
        /\ (prev.valid /\ prev.files = upload_files /\ prev.dates = dates) =>
               /\ prev.names = LayerNames(m)
               /\ prev.params = RequestParams(requests)
               /\ prev.hasControl = ControlLast(m)

\* Two completed renders in a row with the same non-empty upload and dates.
C7_Witness ==
    /\ pc = "done"
    /\ prev.valid
    /\ prev.files = upload_files
    /\ prev.dates = dates
    /\ upload_files # <<>>

OverlayNames == {"True Color Image", "NDVI", "NDVI - Classified"}
NamesOn(map) == {map.children[i].name : i \in 1..Len(map.children)}

\* C8: a remote failure ends the render: the failing call was attempted once,
\* no remote call is attempted twice in a render, and the map is displayed
\* only with all three overlay layers on it.
C8_NoRetryNoPartial ==
    /\ \A c \in RemoteCalls : attempts[c] <= 1
    /\ failed # "" => (pc = "error" /\ ~displayed /\ attempts[failed] = 1)
    /\ pc = "error" => ~displayed
    /\ (displayed \/ pc = "display") => OverlayNames \subseteq NamesOn(m)

\* The second getMapId request failed after the first layer was attached.
C8_Witness ==
    /\ pc = "error"
    /\ failed = "NDVI"
    /\ "True Color Image" \in NamesOn(m)
    /\ "NDVI" \notin NamesOn(m)

\* ---- claims about the band math (SpecRaster)
NdviIs(num, den) == ~ndvi_raw.masked /\ ndvi_raw.n * den = num * ndvi_raw.d

ExpectedClass(v) ==
    IF 100 * v.n < 15 * v.d THEN 1
    ELSE IF 100 * v.n < 25 * v.d THEN 2
    ELSE IF 100 * v.n < 35 * v.d THEN 3
    ELSE IF 100 * v.n < 45 * v.d THEN 4
    ELSE IF 100 * v.n < 65 * v.d THEN 5
    ELSE IF 100 * v.n < 75 * v.d THEN 6
    ELSE 7

\* C4: the classified value is a function of the NDVI value alone, with
\* lower-bound-inclusive breakpoints 0, 0.15, 0.25, 0.35, 0.45, 0.65, 0.75
\* (0.10 -> 1, 0.30 -> 3, 0.80 -> 7, 0.25 -> 3); a pixel whose NDVI is
\* undefined or below 0 is undefined in the classified image.
C4_ClassByBreakpoints ==
    stage = "done" =>
        /\ (ndvi_raw.masked \/ ndvi_raw.n < 0) => ndvi_classified.masked
        /\ (~ndvi_raw.masked /\ ndvi_raw.n >= 0) =>
               /\ ~ndvi_classified.masked
               /\ ndvi_classified.d = 1
               /\ ndvi_classified.n = ExpectedClass(ndvi_raw)
        /\ NdviIs(10, 100) => ndvi_classified.n = 1
        /\ NdviIs(30, 100) => ndvi_classified.n = 3
        /\ NdviIs(80, 100) => ndvi_classified.n = 7
        /\ NdviIs(25, 100) => ndvi_classified.n = 3

\* A pixel whose NDVI is exactly 0.25 has been classified.
C4_Witness ==
    /\ stage = "done"
    /\ NdviIs(25, 100)
    /\ ndvi_classified.n = 3

\* Rule k of the ordered list (lowerBound, upperBound, classId) holds of v.
Matches(k, v) ==
    /\ Rules[k].lo.n * v.d <= v.n * Rules[k].lo.d
    /\ Rules[k].bounded => v.n * Rules[k].hi.d < Rules[k].hi.n * v.d

\* The first of the first j rules that holds of v decides; v stays if none.
RuleListEval(v, j) ==
    IF \E k \in 1..j : Matches(k, v)
    THEN LET first == CHOOSE k \in 1..j :
                          Matches(k, v) /\ \A h \in 1..(k - 1) : ~Matches(h, v) IN
         [masked |-> FALSE, n |-> Rules[first].classId, d |-> 1]
    ELSE v

\* C9: every rule of the chain is tested against the masked NDVI, not against
\* the chain's intermediate output: for an unmasked pixel exactly one rule
\* holds, and after any number of where() calls the chain's output equals the
\* ordered rule list evaluated on the original value (so a pixel overwritten
\* with class k is not overwritten again).
C9_ChainEqualsRuleList ==
    (stage \in {"classify", "done"} /\ ~ndvi.masked) =>
        /\ Cardinality({k \in 1..Len(Rules) : Matches(k, ndvi)}) = 1
        /\ ndvi_classified = RuleListEval(ndvi, applied)

\* A pixel that the first rule overwrote with class 1 has passed the six
\* later rules.
C9_Witness ==
    /\ stage = "done"
    /\ ~ndvi.masked
    /\ applied = 7
    /\ ndvi_classified.n = 1

Missing(img) == img.masked

\* C10: a pixel with no scene, or outside the AOI clip, is missing in the
\* composite; a pixel missing in the composite is missing in the true-color,
\* NDVI and classified-NDVI images; and the NDVI and classified-NDVI images
\* are missing at exactly the same pixels.
C10_SharedMissingPixels ==
    stage = "done" =>
        /\ (~inAOI \/ scenes = <<>>) => Missing(sat_imagery)
        /\ Missing(sat_imagery) =>
               (Missing(tci_image) /\ Missing(ndvi) /\ Missing(ndvi_classified))
        /\ Missing(ndvi) <=> Missing(ndvi_classified)

\* A pixel with a scene over it, but outside the AOI, after the whole chain.
C10_Witness ==
    /\ stage = "done"
    /\ ~inAOI
    /\ scenes # <<>>
    /\ Missing(sat_imagery)
====
